---- MODULE Spec2Model ----
(***************************************************************************)
(* Model of dexscreener-tui (src/main.py): the refresh thread that fetches *)
(* token data in batches and publishes a snapshot, and the curses          *)
(* render/input loop that draws the last published snapshot.               *)
(*                                                                         *)
(* Numbers are scaled integers: a price, a valuation or a percentage is    *)
(* the integer the remote sent; only the fdv formatting divides.           *)
(***************************************************************************)
EXTENDS Integers, Sequences, FiniteSets, TLC

VARIABLES
    addys,        \* main: the address list read at start-up (never changes)
    remote,       \* the answers the remote may give to a lookup (never changes)
    answers,      \* the remote's answers to the lookups so far, in order
    requests,     \* the batches sent to the remote so far, in order
    apiPc,        \* apiThread: "fetch" | "sleep" | "stopped"
    gen,          \* apiThread: number of the refresh cycle under way
    chunkIdx,     \* getInfoFromAddys: index of the next chunk of the loop
    all_results,  \* getInfoFromAddys: reference of the list being built
    results,      \* getTokensInfo: its local `results` when the last call ended
    lists,        \* the heap of list objects: reference -> contents
    data,         \* main: the snapshot variable (a list reference)
    uiPc,         \* main loop: "getch" | "draw" | "sleep" | "exited" | "crashed"
    drawKind,     \* which updateScreen call is running: "resize" | "timed"
    drawData,     \* updateScreen: its `data` argument (a list reference)
    drawIdx,      \* updateScreen: entries of the list consumed by the for loop
    row,          \* updateScreen: its local `row`
    shown,        \* the screen's data rows since the last clear: <<row, record>>
    scr,          \* stdscr.getmaxyx(): <<h, w>>
    pending       \* terminal size of a resize not yet read by getch, or NoResize

apiVars == <<addys, remote, answers, requests, apiPc, gen, chunkIdx, all_results, results, lists, data>>
uiVars == <<uiPc, drawKind, drawData, drawIdx, row, shown, scr, pending>>
vars == <<addys, remote, answers, requests, apiPc, gen, chunkIdx, all_results, results, lists, data,
          uiPc, drawKind, drawData, drawIdx, row, shown, scr, pending>>

-----------------------------------------------------------------------------
(* Bounds of the model *)

MaxBatches == 2     \* address lists reach MaxBatches full batches plus one address
MaxTokens == 2      \* longest address list checked against every malformed payload
MaxCycles == 2      \* refresh cycles of the two-thread specification

(* Program constants *)

MAX_TOKENS_PER_REQUEST == 30
FdvUnit == 100000

-----------------------------------------------------------------------------
(* Python values *)

None == [none |-> TRUE]
NoneRef == 0 - 1                          \* None where a list reference is expected

Num(n) == [t |-> "num", v |-> n]          \* a JSON number
NumStr(n) == [t |-> "numstr", v |-> n]    \* a string holding the numeral of n
Text(k) == [t |-> "text", v |-> k]        \* a string that is no numeral
Null == [t |-> "null", v |-> 0]           \* JSON null
Missing == [t |-> "missing", v |-> 0]     \* the key is not in the object

Ok(x) == [exc |-> "none", val |-> x]
Raise(e) == [exc |-> e, val |-> None]

\* float(x)
pyFloat(x) ==
    CASE x.t \in {"num", "numstr"} -> Ok(x.v)
      [] x.t = "text" -> Raise("ValueError")
      [] OTHER -> Raise("TypeError")

\* str(x)
pyStr(x) ==
    CASE x.t = "num" -> NumStr(x.v)
      [] x.t = "null" -> Text(0)          \* 'None': text 0 is no symbol or url
      [] OTHER -> x

\* obj[key]
pyItem(x) == IF x.t = "missing" THEN Raise("KeyError") ELSE Ok(x)

\* obj.get(key, '0')
pyGet(x) == IF x.t = "missing" THEN NumStr(0) ELSE x

\* addr.lower()
pyLower(a) == [a EXCEPT !.up = FALSE]

\* [None] * n
NoneList(n) == [i \in 1..n |-> None]

\* f"{x/1000000:.1f}": tenths of a million, round-half-even
FormatFdv(x) ==
    LET q == x \div FdvUnit
        r == x % FdvUnit
    IN  CASE 2 * r > FdvUnit -> q + 1
          [] 2 * r < FdvUnit -> q
          [] OTHER -> IF q % 2 = 0 THEN q ELSE q + 1

-----------------------------------------------------------------------------
(* The remote: what one lookup answers.  An answer says how the transport  *)
(* ended, the shape of the decoded body, and what the body's pair entry is *)
(* like for the first, the last and the other addresses of the batch.      *)

Addr(i) == [id |-> i, up |-> (i % 2 = 1)]     \* an address as cas.txt writes it
RemoteAddr(i) == [id |-> i, up |-> TRUE]      \* the same address as the remote writes it

Faults == {"valid", "unknown", "noSymbol", "noUrl", "noPrice", "noFdv",
           "textPrice", "textFdv", "nullPrice", "nullFdv"}
FieldFaults == Faults \ {"valid", "unknown"}
PcKinds == {"absent", "full", "noH1", "onlyH1", "empty", "textH1", "nullM5", "nullObj"}

Entry(f, p) == [fault |-> f, pc |-> p]
Good == Entry("valid", "full")

Answer(h, t, e1, e2, e3, x) ==
    [http |-> h, top |-> t, first |-> e1, last |-> e2, rest |-> e3, px |-> x]
Failed(h) == Answer(h, "obj", Good, Good, Good, 1)
Shaped(t) == Answer("ok", t, Good, Good, Good, 1)
Pairs(e1, e2, e3, x) == Answer("ok", "obj", e1, e2, e3, x)

RECURSIVE FirstFrom(_, _, _)
FirstFrom(tokens, i, k) == IF tokens[k].id = i THEN k ELSE FirstFrom(tokens, i, k + 1)

\* The first position of address id i in tokens
FirstPos(tokens, i) == FirstFrom(tokens, i, 1)

\* What the answer says of the address at position k of the batch
EntryAt(ans, tokens, k) ==
    LET p == FirstPos(tokens, tokens[k].id)
    IN  CASE p = 1 -> ans.first
          [] p = Len(tokens) -> ans.last
          [] OTHER -> ans.rest

PriceChangeOf(p) ==
    LET h24 == IF p \in {"onlyH1", "empty"} THEN Missing ELSE Num(520)
        h1 == CASE p \in {"noH1", "empty"} -> Missing
                [] p = "textH1" -> Text(7)
                [] OTHER -> Num(0 - 130)
        m5 == CASE p \in {"onlyH1", "empty"} -> Missing
                [] p = "nullM5" -> Null
                [] OTHER -> NumStr(7)
    IN  [t |-> CASE p = "absent" -> "missing" [] p = "nullObj" -> "null" [] OTHER -> "obj",
         h24 |-> h24, h1 |-> h1, m5 |-> m5]

\* The pair entry the remote holds for address id i
PairOf(i, e, px) ==
    [hasBase |-> TRUE,
     address |-> RemoteAddr(i),
     symbol |-> IF e.fault = "noSymbol" THEN Missing ELSE Text(i),
     priceUsd |-> CASE e.fault = "noPrice" -> Missing
                    [] e.fault = "textPrice" -> Text(i)
                    [] e.fault = "nullPrice" -> Null
                    [] OTHER -> NumStr(100 * i + px),
     url |-> IF e.fault = "noUrl" THEN Missing ELSE Text(i),
     fdv |-> CASE e.fault = "noFdv" -> Missing
               [] e.fault = "textFdv" -> Text(i)
               [] e.fault = "nullFdv" -> Null
               [] OTHER -> Num(1250000 * i),
     priceChange |-> PriceChangeOf(e.pc)]

RECURSIVE PairItems(_, _, _)
\* The body's pairs: one per distinct address the remote knows, in batch order
PairItems(ans, tokens, k) ==
    IF k > Len(tokens) THEN <<>>
    ELSE LET e == EntryAt(ans, tokens, k)
             here == IF FirstPos(tokens, tokens[k].id) = k /\ e.fault # "unknown"
                     THEN <<PairOf(tokens[k].id, e, ans.px)>>
                     ELSE <<>>
         IN  here \o PairItems(ans, tokens, k + 1)

\* The decoded body of an answer
Body(ans, tokens) ==
    LET items == PairItems(ans, tokens, 1)
    IN  CASE ans.top = "null" -> None
          [] ans.top = "noPairs" -> [hasPairs |-> FALSE, pairsNull |-> FALSE, items |-> <<>>]
          [] ans.top = "pairsNull" -> [hasPairs |-> TRUE, pairsNull |-> TRUE, items |-> <<>>]
          [] ans.top = "noBase" ->
                [hasPairs |-> TRUE, pairsNull |-> FALSE,
                 items |-> [k \in 1..Len(items) |->
                              IF k = 1 THEN [items[k] EXCEPT !.hasBase = FALSE] ELSE items[k]]]
          [] OTHER -> [hasPairs |-> TRUE, pairsNull |-> FALSE, items |-> items]

-----------------------------------------------------------------------------
(* dexScreenerRequest, getTokensInfo, getInfoFromAddys *)

\* chunk_list with the slice lst[i:i + n + 1]
chunk_list_overlap(lst, n) ==
    [k \in 1..((Len(lst) + n - 1) \div n) |->
        SubSeq(lst, (k - 1) * n + 1, IF k * n + 1 < Len(lst) THEN k * n + 1 ELSE Len(lst))]

\* chunk_list(lst, n)
chunk_list(lst, n) ==
    [k \in 1..((Len(lst) + n - 1) \div n) |->
        SubSeq(lst, (k - 1) * n + 1, IF k * n < Len(lst) THEN k * n ELSE Len(lst))]

\* dexScreenerRequest: the decoded body, or None
dexScreenerRequest(ans, tokens) ==
    IF ans.http = "ok" THEN Body(ans, tokens) ELSE None

\* The except clauses of getTokensInfo
InnerCatches(e) == e \in {"KeyError", "ValueError"}
\* `except KeyError` in place of `except Exception`
OuterCatches_narrow(e) == e = "KeyError"

OuterCatches(e) == e \in {"KeyError", "ValueError", "TypeError", "AttributeError"}

RECURSIVE DictOf(_, _)
\* The dict comprehension: pairs before position k, a later pair replacing an earlier
DictOf(items, k) ==
    IF k = 0 THEN <<>>
    ELSE (pyLower(items[k].address) :> items[k]) @@ DictOf(items, k - 1)

\* pairs_dict = {pair['baseToken']['address'].lower(): pair for pair in data['pairs']}
PairsDict(body) ==
    CASE ~body.hasPairs -> Raise("KeyError")
      [] body.pairsNull -> Raise("TypeError")
      [] \E k \in 1..Len(body.items) : ~body.items[k].hasBase -> Raise("KeyError")
      [] OTHER -> Ok(DictOf(body.items, Len(body.items)))

\* info['priceChange'] with price_change['h24'] in place of price_change.get('h24', '0')
InfoPriceChange_index(pair) ==
    LET pc == pair.priceChange
    IN  CASE pc.t = "missing" -> Ok([c24h |-> NumStr(0), c1h |-> NumStr(0), c5m |-> NumStr(0)])
          [] pc.t = "null" -> Raise("TypeError")
          [] \E x \in {pc.h24, pc.h1, pc.m5} : x = Missing -> Raise("KeyError")
          [] OTHER -> Ok([c24h |-> pyStr(pc.h24), c1h |-> pyStr(pc.h1), c5m |-> pyStr(pc.m5)])

\* info['priceChange']
InfoPriceChange(pair) ==
    LET pc == pair.priceChange
    IN  CASE pc.t = "missing" -> Ok([c24h |-> NumStr(0), c1h |-> NumStr(0), c5m |-> NumStr(0)])
          [] pc.t = "null" -> Raise("AttributeError")
          [] OTHER -> Ok([c24h |-> pyStr(pyGet(pc.h24)),
                          c1h |-> pyStr(pyGet(pc.h1)),
                          c5m |-> pyStr(pyGet(pc.m5))])

\* The record built from one pair entry, or the first exception of building it
BuildInfo(pair) ==
    LET symbol == pyItem(pair.symbol)
        priceKey == pyItem(pair.priceUsd)
        price == pyFloat(pair.priceUsd)
        url == pyItem(pair.url)
        fdvKey == pyItem(pair.fdv)
        fdv == pyFloat(pair.fdv)
        change == InfoPriceChange(pair)
    IN  CASE symbol.exc # "none" -> Raise(symbol.exc)
          [] priceKey.exc # "none" -> Raise(priceKey.exc)
          [] price.exc # "none" -> Raise(price.exc)
          [] url.exc # "none" -> Raise(url.exc)
          [] fdvKey.exc # "none" -> Raise(fdvKey.exc)
          [] fdv.exc # "none" -> Raise(fdv.exc)
          [] change.exc # "none" -> Raise(change.exc)
          [] OTHER -> Ok([symbol |-> symbol.val,
                          priceUsd |-> price.val,
                          url |-> url.val,
                          fdv |-> FormatFdv(fdv.val),
                          priceChange |-> change.val])

\* One iteration of `for token in tokens`, before its except clause
ProcessToken(token, pairs_dict) ==
    IF pyLower(token) \in DOMAIN pairs_dict
    THEN BuildInfo(pairs_dict[pyLower(token)])
    ELSE Ok(None)

RECURSIVE TokenLoop(_, _, _, _)
\* The for loop from position k on: the exception that left it, and `results` then
TokenLoop(tokens, pairs_dict, k, acc) ==
    IF k > Len(tokens) THEN Ok(acc)
    ELSE LET r == ProcessToken(tokens[k], pairs_dict)
         IN  CASE r.exc = "none" -> TokenLoop(tokens, pairs_dict, k + 1, Append(acc, r.val))
               [] InnerCatches(r.exc) -> TokenLoop(tokens, pairs_dict, k + 1, Append(acc, None))
               [] OTHER -> [exc |-> r.exc, val |-> acc]

\* The body of getTokensInfo's outer try
TokensTry(ans, tokens) ==
    LET d == PairsDict(dexScreenerRequest(ans, tokens))
    IN  IF d.exc # "none" THEN [exc |-> d.exc, val |-> <<>>]
        ELSE TokenLoop(tokens, d.val, 1, <<>>)

\* getTokensInfo returning [] where it returns [None] * len(tokens)
getTokensInfo_noPad(ans, tokens) ==
    IF dexScreenerRequest(ans, tokens) = None THEN Ok(<<>>)
    ELSE LET r == TokensTry(ans, tokens)
         IN  IF r.exc = "none" THEN r ELSE Ok(<<>>)

\* getTokensInfo(tokens): what it returns, or the exception that leaves it
getTokensInfo(ans, tokens) ==
    IF dexScreenerRequest(ans, tokens) = None THEN Ok(NoneList(Len(tokens)))
    ELSE LET r == TokensTry(ans, tokens)
         IN  CASE r.exc = "none" -> r
               [] OuterCatches(r.exc) -> Ok(NoneList(Len(tokens)))
               [] OTHER -> [exc |-> r.exc, val |-> <<>>]

\* getTokensInfo's local `results` when the call ends
LocalResults(ans, tokens) ==
    IF dexScreenerRequest(ans, tokens) = None THEN <<>> ELSE TokensTry(ans, tokens).val

NumChunks(lst) == Len(chunk_list(lst, MAX_TOKENS_PER_REQUEST))

-----------------------------------------------------------------------------
(* apiThread *)

\* The chunk of the loop's current iteration
CurChunk == chunk_list(addys, MAX_TOKENS_PER_REQUEST)[chunkIdx]

\* The loop of getInfoFromAddys has a chunk left, in a process that is alive
ApiFetchReady ==
    /\ apiPc = "fetch"
    /\ uiPc \notin {"exited", "crashed"}
    /\ chunkIdx <= NumChunks(addys)

\* One iteration of getInfoFromAddys's loop: a lookup, which the remote answers
\* with ans, then all_results.extend; an exception leaving getTokensInfo would
\* end the thread
ApiFetchChunk ==
    /\ ApiFetchReady
    /\ \E ans \in remote :
          /\ answers' = Append(answers, ans)
          /\ results' = LocalResults(ans, CurChunk)
          /\ lists' = IF getTokensInfo(ans, CurChunk).exc = "none"
                      THEN [lists EXCEPT ![all_results] = @ \o getTokensInfo(ans, CurChunk).val]
                      ELSE lists
          /\ chunkIdx' = IF getTokensInfo(ans, CurChunk).exc = "none" THEN chunkIdx + 1 ELSE chunkIdx
          /\ apiPc' = IF getTokensInfo(ans, CurChunk).exc = "none" THEN "fetch" ELSE "stopped"
    /\ requests' = Append(requests, CurChunk)
    /\ UNCHANGED <<addys, remote, gen, all_results, data>>
    /\ UNCHANGED uiVars

\* getInfoFromAddys returns; `if newData is not None: data = newData`; sleep starts
ApiPublish ==
    /\ apiPc = "fetch"
    /\ uiPc \notin {"exited", "crashed"}
    /\ chunkIdx > NumChunks(addys)
    /\ data' = IF all_results # NoneRef THEN all_results ELSE data
    /\ apiPc' = "sleep"
    /\ UNCHANGED <<addys, remote, answers, requests, gen, chunkIdx, all_results, results, lists>>
    /\ UNCHANGED uiVars

\* time.sleep(5) ends; the next getInfoFromAddys call starts with all_results = []
ApiWake ==
    /\ apiPc = "sleep"
    /\ uiPc \notin {"exited", "crashed"}
    /\ gen < MaxCycles
    /\ gen' = gen + 1
    /\ all_results' = gen + 1
    /\ lists' = (gen + 1 :> <<>>) @@ lists
    /\ chunkIdx' = 1
    /\ apiPc' = "fetch"
    /\ UNCHANGED <<addys, remote, answers, requests, results, data>>
    /\ UNCHANGED uiVars

-----------------------------------------------------------------------------
(* One refresh cycle, for every address list and every remote answer *)

Lengths ==
    {n \in 0..(MaxBatches * MAX_TOKENS_PER_REQUEST + 1) :
        \E k \in 0..MaxBatches, d \in {0 - 1, 0, 1} : n = k * MAX_TOKENS_PER_REQUEST + d}

LongLists == {[i \in 1..n |-> Addr(i)] : n \in Lengths}
ShortLists == {[i \in 1..n |-> Addr(i)] : n \in 1..MaxTokens} \cup {<<Addr(1), RemoteAddr(1)>>}

CoarseAnswers ==
    {Failed("connError"), Failed("status500"), Shaped("noPairs")}
    \cup {Pairs(Good, Good, Good, 1),
          Pairs(Entry("unknown", "full"), Good, Good, 1),
          Pairs(Good, Entry("textPrice", "full"), Good, 1),
          Pairs(Good, Entry("nullFdv", "full"), Entry("unknown", "full"), 1)}

RichEntries == {Entry(f, "full") : f \in Faults} \cup {Entry("valid", p) : p \in PcKinds}

RichAnswers(n) ==
    {Failed("connError"), Failed("status500"), Failed("badJson")}
    \cup {Shaped(t) : t \in {"null", "noPairs", "pairsNull", "noBase"}}
    \cup {Pairs(e1, e2, e3, 1) :
            e1 \in RichEntries,
            e2 \in IF n >= 2 THEN RichEntries ELSE {Good},
            e3 \in IF n >= 3 THEN RichEntries ELSE {Good}}

InitUi ==
    /\ uiPc = "getch"
    /\ drawKind = "timed"
    /\ drawData = 0
    /\ drawIdx = 0
    /\ row = 4
    /\ shown = <<>>
    /\ scr = <<24, 80>>
    /\ pending = <<0, 0>>

InitApi ==
    /\ answers = <<>>
    /\ requests = <<>>
    /\ apiPc = "fetch"
    /\ gen = 1
    /\ chunkIdx = 1
    /\ all_results = 1
    /\ results = <<>>
    /\ lists = (0 :> <<>>) @@ (1 :> <<>>)
    /\ data = 0

InitCycle ==
    /\ \/ /\ addys \in LongLists
          /\ remote = CoarseAnswers
       \/ /\ addys \in ShortLists
          /\ remote = RichAnswers(Len(addys))
    /\ InitApi
    /\ InitUi

NextCycle == ApiFetchChunk \/ ApiPublish

SpecCycle == InitCycle /\ [][NextCycle]_vars

-----------------------------------------------------------------------------
(* Properties of one refresh cycle (SpecCycle) *)

Min(a, b) == IF a < b THEN a ELSE b

\* The k-th batch the claims expect: addresses 30(k-1)+1 .. 30k of the list
BatchOf(k) ==
    SubSeq(addys, (k - 1) * MAX_TOKENS_PER_REQUEST + 1,
           Min(k * MAX_TOKENS_PER_REQUEST, Len(addys)))

\* The part of the merged list that belongs to the k-th batch
SliceOf(out, k) ==
    SubSeq(out, (k - 1) * MAX_TOKENS_PER_REQUEST + 1,
           Min(k * MAX_TOKENS_PER_REQUEST, Len(addys)))

\* The record of the pair entry that the k-th answer holds for position i of its batch
RecordFor(k, i) == BuildInfo(PairOf(BatchOf(k)[i].id, EntryAt(answers[k], BatchOf(k), i), answers[k].px))

LookupFailed(ans) == ans.http # "ok" \/ ans.top # "obj"

Returned == apiPc = "sleep"

\* C1: the merged list has one entry per address, the entry at position i is
\* absent or the record built for address i, and the batches are the consecutive
\* chunks of at most 30 addresses, looked up in order.
C1_MergedAligned ==
    LET out == lists[all_results]
    IN  /\ Len(out) = Min(Len(requests) * MAX_TOKENS_PER_REQUEST, Len(addys))
        /\ Returned => Len(out) = Len(addys)
        /\ \A k \in 1..Len(requests) :
              /\ requests[k] = BatchOf(k)
              /\ Len(requests[k]) \in 1..MAX_TOKENS_PER_REQUEST
              /\ Len(SliceOf(out, k)) = Len(BatchOf(k))
              /\ \A i \in 1..Len(BatchOf(k)) :
                    \/ SliceOf(out, k)[i] = None
                    \/ SliceOf(out, k)[i] = RecordFor(k, i).val

C1_Witness ==
    /\ Returned
    /\ Len(addys) = MaxBatches * MAX_TOKENS_PER_REQUEST + 1
    /\ Len(requests) = MaxBatches + 1
    /\ lists[all_results][1] = None
    /\ lists[all_results][Len(addys)] # None
    /\ lists[all_results][MAX_TOKENS_PER_REQUEST] # None

\* C2: a batch whose lookup failed contributes len(batch) absent entries, every
\* batch is looked up exactly once, and the other batches contribute the
\* results of their own answers.
C2_FailedBatchPadded ==
    LET out == lists[all_results]
    IN  /\ Len(requests) = chunkIdx - 1
        /\ Returned => Len(requests) = NumChunks(addys)
        /\ Len(out) = Min(Len(requests) * MAX_TOKENS_PER_REQUEST, Len(addys))
        /\ \A k \in 1..Len(requests) :
              /\ requests[k] = BatchOf(k)
              /\ LookupFailed(answers[k]) => SliceOf(out, k) = NoneList(Len(BatchOf(k)))
              /\ ~LookupFailed(answers[k]) =>
                    \A i \in 1..Len(BatchOf(k)) :
                        SliceOf(out, k)[i] \in {None, RecordFor(k, i).val}
              /\ answers[k] = Pairs(Good, Good, Good, 1) =>
                    \A i \in 1..Len(BatchOf(k)) : SliceOf(out, k)[i] = RecordFor(k, i).val

C2_Witness ==
    /\ Returned
    /\ Len(requests) = 3
    /\ answers[1] = Pairs(Good, Good, Good, 1)
    /\ LookupFailed(answers[2])
    /\ answers[3] = Pairs(Good, Good, Good, 1)
    /\ lists[all_results][MAX_TOKENS_PER_REQUEST] # None
    /\ lists[all_results][MAX_TOKENS_PER_REQUEST + 1] = None
    /\ lists[all_results][Len(addys)] # None

\* The answer with the pair entry of position j made valid
Repaired(ans, tokens, j) ==
    LET p == FirstPos(tokens, tokens[j].id)
        fixed == Entry("valid", EntryAt(ans, tokens, j).pc)
    IN  CASE p = 1 -> [ans EXCEPT !.first = fixed]
          [] p = Len(tokens) -> [ans EXCEPT !.last = fixed]
          [] OTHER -> [ans EXCEPT !.rest = fixed]

\* C3: a pair entry with a missing required field, or a priceUsd/fdv that does
\* not parse (text or null), makes its own address absent and leaves every
\* other address of the batch with the record it gets when that entry is valid.
C3_FieldFailureScoped ==
    \A k \in 1..Len(requests) :
        ~LookupFailed(answers[k]) =>
            \A j \in 1..Len(BatchOf(k)) :
                EntryAt(answers[k], BatchOf(k), j).fault \in FieldFaults =>
                    /\ SliceOf(lists[all_results], k)[j] = None
                    /\ \A i \in 1..Len(BatchOf(k)) :
                          BatchOf(k)[i].id # BatchOf(k)[j].id =>
                              SliceOf(lists[all_results], k)[i] =
                                  getTokensInfo(Repaired(answers[k], BatchOf(k), j), BatchOf(k)).val[i]

-----------------------------------------------------------------------------
(* The percentage cells of updateScreen (lines 177-183) *)

\* One cell: the value drawn and its colour
ChangeCell(change) ==
    LET value == pyFloat(change)
    IN  IF value.exc = "none"
        THEN [text |-> "signed", value |-> value.val,
              color |-> IF value.val >= 0 THEN "green" ELSE "red"]
        ELSE [text |-> "0.00%", value |-> 0, color |-> "default"]

\* The raw sub-fields and the stored ones, side by side
SubFields(pair, info) ==
    {<<pair.priceChange.h24, info.priceChange.c24h>>,
     <<pair.priceChange.h1, info.priceChange.c1h>>,
     <<pair.priceChange.m5, info.priceChange.c5m>>}

\* The raw priceChange of the pair entry of position i, the object absent
\* counting as every sub-field missing
RawPair(k, i) ==
    LET pair == PairOf(BatchOf(k)[i].id, EntryAt(answers[k], BatchOf(k), i), answers[k].px)
    IN  IF pair.priceChange.t = "missing"
        THEN [pair EXCEPT !.priceChange = [t |-> "missing", h24 |-> Missing, h1 |-> Missing, m5 |-> Missing]]
        ELSE pair

\* The positions of the last batch whose entry has valid required fields and a
\* priceChange that is absent or an object, and that the loop got to
ChangeCases ==
    {i \in 1..Len(results) :
        /\ ~LookupFailed(answers[Len(requests)])
        /\ EntryAt(answers[Len(requests)], BatchOf(Len(requests)), i).fault = "valid"
        /\ EntryAt(answers[Len(requests)], BatchOf(Len(requests)), i).pc # "nullObj"}

-----------------------------------------------------------------------------
(* The terminal and the draw routines *)

NoResize == <<0, 0>>

\* The terminal sizes of the model: <<lines, columns>>
Dims == {<<24, 80>>, <<24, 40>>, <<7, 80>>, <<24, 25>>, <<3, 40>>}

Max(a, b) == IF a > b THEN a ELSE b

\* stdscr.addstr(y, x, s) with len(s) = n returns normally: the position is in
\* the window and the text ends before the window's last cell
AddstrOk(d, y, x, n) ==
    /\ y >= 0 /\ y < d[1]
    /\ x >= 0 /\ x < d[2]
    /\ y * d[2] + x + n < d[1] * d[2]

\* getColW
getColW(d) == [i \in 1..6 |-> (<<10, 10, 12, 6, 6, 6>>[i] * d[2]) \div 50]

\* The start column of column i
ColStart(d, i) ==
    LET Sum[j \in 0..6] == IF j = 0 THEN 3 ELSE Sum[j - 1] + getColW(d)[j]
    IN  Sum[i - 1]

\* drawFrame: every addstr outside its try returns normally
drawFrameOk(d) ==
    LET h == d[1]
        w == d[2]
        footer_pos == w - 19 - 2
        bottom_line == 1 + Max(0, footer_pos - 1) + 19 + Max(0, w - footer_pos - 19 - 2) + 1
    IN  /\ AddstrOk(d, 0, 0, 2 + Max(0, w - 2))
        /\ \A y \in 1..(h - 2) : AddstrOk(d, y, 0, 1) /\ AddstrOk(d, y, w - 1, 1)
        /\ AddstrOk(d, 2, 0, 2 + Max(0, w - 2))
        /\ AddstrOk(d, h - 1, 0, bottom_line - 1)

\* drawHeader: every addstr returns normally
drawHeaderOk(d) ==
    /\ AddstrOk(d, 1, (d[2] - 15) \div 2, 15)
    /\ \A i \in 1..6 :
          AddstrOk(d, 3, ColStart(d, i), Min(<<6, 3, 10, 3, 2, 2>>[i], getColW(d)[i]))

\* The text lengths of a data row: '$' + symbol, fdv, price, and the three cells
RowLens(token) ==
    <<1 + 4, 5, 11,
      IF ChangeCell(token.priceChange.c24h).text = "signed" THEN 6 ELSE 5,
      IF ChangeCell(token.priceChange.c1h).text = "signed" THEN 6 ELSE 5,
      IF ChangeCell(token.priceChange.c5m).text = "signed" THEN 6 ELSE 5>>

\* One data row: every addstr returns normally
drawRowOk(d, r, token) ==
    \A i \in 1..6 : AddstrOk(d, r, ColStart(d, i), RowLens(token)[i])

\* The first entry after position k of lst that is not None, or 0
NextToken(lst, k) ==
    IF \E j \in (k + 1)..Len(lst) : lst[j] # None
    THEN CHOOSE j \in (k + 1)..Len(lst) :
            /\ lst[j] # None
            /\ \A i \in (k + 1)..(j - 1) : lst[i] = None
    ELSE 0

\* updateScreen re-reading the snapshot variable at each row
DrawList_reread == lists[data]

\* The list updateScreen iterates: its `data` parameter
DrawList == lists[drawData]

-----------------------------------------------------------------------------
(* The render/input loop of main *)

\* An updateScreen call ends normally: `continue` after the resize redraw,
\* time.sleep(1) after the timed one
AfterDraw == IF drawKind = "resize" THEN "getch" ELSE "sleep"

\* An updateScreen call raises curses.error: the except clause of the loop's
\* try catches it in the resize branch, and line 222 is outside the try
RaiseTo == IF drawKind = "resize" THEN "draw" ELSE "crashed"

\* key = stdscr.getch() returns ord('q')
UiGetchQuit ==
    /\ uiPc = "getch"
    /\ uiPc' = "exited"
    /\ UNCHANGED <<drawKind, drawData, drawIdx, row, shown, scr, pending>>
    /\ UNCHANGED apiVars

\* getch returns KEY_RESIZE: the window has its new size; stdscr.clear()
UiGetchResize ==
    /\ uiPc = "getch"
    /\ pending # NoResize
    /\ scr' = pending
    /\ pending' = NoResize
    /\ shown' = <<>>
    /\ uiPc' = "draw"
    /\ drawKind' = "resize"
    /\ UNCHANGED <<drawData, drawIdx, row>>
    /\ UNCHANGED apiVars

\* getch returns -1 or another key
UiGetchNone ==
    /\ uiPc = "getch"
    /\ uiPc' = "draw"
    /\ drawKind' = "timed"
    /\ UNCHANGED <<drawData, drawIdx, row, shown, scr, pending>>
    /\ UNCHANGED apiVars

\* with a lock that the refresh thread holds while it fetches
UiDrawBegin_locked ==
    /\ uiPc = "draw"
    /\ apiPc # "fetch"
    /\ drawData' = data
    /\ shown' = <<>>
    /\ drawIdx' = 0
    /\ row' = 4
    /\ uiPc' = IF drawFrameOk(scr) /\ drawHeaderOk(scr) THEN "rows" ELSE RaiseTo
    /\ drawKind' = IF drawFrameOk(scr) /\ drawHeaderOk(scr) THEN drawKind ELSE "timed"
    /\ UNCHANGED <<scr, pending>>
    /\ UNCHANGED apiVars

\* updateScreen(stdscr, data) up to its for loop: clear, drawFrame, drawHeader
UiDrawBegin ==
    /\ uiPc = "draw"
    /\ drawData' = data
    /\ shown' = <<>>
    /\ drawIdx' = 0
    /\ row' = 4
    /\ uiPc' = IF drawFrameOk(scr) /\ drawHeaderOk(scr) THEN "rows" ELSE RaiseTo
    /\ drawKind' = IF drawFrameOk(scr) /\ drawHeaderOk(scr) THEN drawKind ELSE "timed"
    /\ UNCHANGED <<scr, pending>>
    /\ UNCHANGED apiVars

\* The for loop of updateScreen up to its next data row, or to its end
UiDrawRow ==
    /\ uiPc = "rows"
    /\ LET j == NextToken(DrawList, drawIdx)
       IN  IF j = 0 \/ row >= scr[1] - 2
           THEN /\ uiPc' = AfterDraw
                /\ drawIdx' = 0
                /\ row' = 4
                /\ UNCHANGED <<drawKind, shown>>
           ELSE IF drawRowOk(scr, row, DrawList[j])
           THEN /\ shown' = Append(shown, <<row, DrawList[j]>>)
                /\ row' = row + 1
                /\ drawIdx' = j
                /\ UNCHANGED <<uiPc, drawKind>>
           ELSE /\ uiPc' = RaiseTo
                /\ drawKind' = "timed"
                /\ drawIdx' = 0
                /\ row' = 4
                /\ UNCHANGED shown
    /\ UNCHANGED <<drawData, scr, pending>>
    /\ UNCHANGED apiVars

\* time.sleep(1) ends
UiSleepDone ==
    /\ uiPc = "sleep"
    /\ uiPc' = "getch"
    /\ UNCHANGED <<drawKind, drawData, drawIdx, row, shown, scr, pending>>
    /\ UNCHANGED apiVars

\* The user resizes the terminal
TermResize ==
    /\ uiPc \notin {"exited", "crashed"}
    /\ \E d \in Dims :
          /\ d # (IF pending = NoResize THEN scr ELSE pending)
          /\ pending' = d
    /\ UNCHANGED <<uiPc, drawKind, drawData, drawIdx, row, shown, scr>>
    /\ UNCHANGED apiVars

-----------------------------------------------------------------------------
(* The program: the refresh thread beside the render/input loop *)

LiveAnswers ==
    {Failed("status500"),
     Pairs(Good, Good, Good, 1),
     Pairs(Entry("unknown", "full"), Good, Good, 2),
     Pairs(Entry("nullFdv", "full"), Good, Good, 1)}

Init ==
    /\ addys = <<Addr(1), Addr(2)>>
    /\ remote = LiveAnswers
    /\ InitApi
    /\ InitUi

ApiNext == ApiFetchChunk \/ ApiPublish \/ ApiWake
UiNext == UiGetchQuit \/ UiGetchResize \/ UiGetchNone \/ UiDrawBegin \/ UiDrawRow \/ UiSleepDone

Next == ApiNext \/ UiNext \/ TermResize

Spec == Init /\ [][Next]_vars

-----------------------------------------------------------------------------
(* Properties of the program (Spec) *)

RECURSIVE CycleResult(_, _)
\* What cycle g's getInfoFromAddys returns, from the answers to its k first lookups
CycleResult(g, k) ==
    IF k = 0 THEN <<>>
    ELSE CycleResult(g, k - 1)
         \o getTokensInfo(answers[(g - 1) * NumChunks(addys) + k], BatchOf(k)).val

\* The snapshot a list reference stands for: the empty list of start-up, or the
\* complete result of the cycle that built it
Snapshot(ref) == IF ref = 0 THEN <<>> ELSE CycleResult(ref, NumChunks(addys))

\* The references published so far
Published == {0} \cup {g \in 1..gen : g < gen \/ apiPc = "sleep"}

RECURSIVE NonAbsent(_)
NonAbsent(lst) ==
    IF lst = <<>> THEN <<>>
    ELSE (IF Head(lst) = None THEN <<>> ELSE <<Head(lst)>>) \o NonAbsent(Tail(lst))

Running == uiPc \notin {"exited", "crashed"}

\* C5: the rows of one draw all come from the one published snapshot the draw
\* was called with, under every interleaving with the refresh thread, and a
\* published list keeps the contents it was published with.
C5_NoTearing ==
    /\ data \in Published
    /\ drawData \in Published
    /\ \A ref \in Published : lists[ref] = Snapshot(ref)
    /\ Len(shown) <= Len(NonAbsent(Snapshot(drawData)))
    /\ \A i \in 1..Len(shown) : shown[i][2] = NonAbsent(Snapshot(drawData))[i]

C5_Witness ==
    /\ uiPc = "rows"
    /\ Len(shown) = 1
    /\ drawData = 1
    /\ data = 2
    /\ NonAbsent(lists[2]) # <<>>
    /\ NonAbsent(lists[1])[1] # NonAbsent(lists[2])[1]

\* C6: no failure stops the refresh thread, and every cycle ends by publishing
\* its result, an all-absent one included, in place of the previous snapshot.
C6_AlwaysPublishes ==
    /\ apiPc # "stopped"
    /\ apiPc = "sleep" =>
          /\ data = gen
          /\ lists[data] = Snapshot(gen)
          /\ Len(lists[data]) = Len(addys)
    /\ apiPc = "fetch" => data = gen - 1

C6_Witness ==
    /\ apiPc = "sleep"
    /\ gen = 2
    /\ data = 2
    /\ NonAbsent(lists[1]) # <<>>
    /\ answers[2] = Pairs(Entry("nullFdv", "full"), Good, Good, 1)
    /\ lists[data] = NoneList(Len(addys))

\* C7: while the process runs, the step each loop is at is enabled whatever
\* step the other loop is at: the render/input loop polls and draws while the
\* refresh thread is in a lookup, and the refresh thread fetches, publishes and
\* wakes whatever the render loop does.  (ApiFetchReady is all of
\* ApiFetchChunk that constrains the current state.)
C7_NoWaiting ==
    Running =>
        /\ uiPc = "getch" => ENABLED UiGetchNone /\ ENABLED UiGetchQuit
        /\ uiPc = "draw" => ENABLED UiDrawBegin
        /\ uiPc = "rows" => ENABLED UiDrawRow
        /\ uiPc = "sleep" => ENABLED UiSleepDone
        /\ apiPc = "fetch" => ApiFetchReady \/ ENABLED ApiPublish
        /\ apiPc = "sleep" /\ gen < MaxCycles => ENABLED ApiWake

C7_Witness ==
    /\ apiPc = "fetch"
    /\ gen = 2
    /\ uiPc = "draw"
    /\ data = 1
    /\ NonAbsent(lists[1]) # <<>>
    /\ ENABLED UiDrawBegin

\* C8: a draw that would write outside the terminal never ends the
\* render/input loop.
C8_BoundsErrorDropped == uiPc # "crashed"

\* The data rows the claim expects of a draw of lst on a terminal of h lines
ExpectedRows(lst, h) ==
    [i \in 1..Min(Len(NonAbsent(lst)), Max(0, h - 6)) |-> <<3 + i, NonAbsent(lst)[i]>>]

\* C9: once a timed draw is over, the rows on the screen are the first
\* min(k, max(0, h-6)) non-absent records of the snapshot, on rows 4, 5, ...
C9_RowsShown ==
    uiPc \in {"sleep", "crashed"} => shown = ExpectedRows(Snapshot(drawData), scr[1])

\* C10: the redraw that follows a resize notification is followed by the key
\* poll: the loop's next step after it is getch, with no second redraw first.
C10_OneRedrawThenPoll ==
    [][(drawKind = "resize" /\ uiPc \in {"draw", "rows"})
          => (drawKind' = "resize" /\ uiPc' \in {"draw", "rows", "getch"})]_vars

====
